---- MODULE Spec2Model ----
(***************************************************************************)
(* A model of the chunking strategy (src/src/core/chunk_strategy.py) and   *)
(* of the embedding batch pipeline (src/src/core/vectorizer.py).           *)
(*                                                                         *)
(* A Python str is a sequence of one-character strings; the header that    *)
(* _create_chunk puts before a chunk's text is a sequence of tokens, none  *)
(* of them whitespace.                                                     *)
(***************************************************************************)
EXTENDS Integers, Sequences, FiniteSets, TLC

(* ------------------------------ bounds -------------------------------- *)

\* longest content drawn character by character
MaxLen == 4
\* most units (blocks or lines) of a content built from units
MaxUnits == 4
\* longest unit of a content built from units
MaxUnitLen == 2
\* largest chunk_size drawn
MaxChunkSize == 4
\* largest chunk_overlap drawn
MaxOverlap == 2
\* length of each block of the three-block scenario
ScenarioBlockLen == 1000

\* most chunks handed to generate_embeddings
MaxChunks == 3
\* largest embedding.batch_size drawn
MaxBatchSize == 2
\* largest embedding.max_retries drawn
MaxRetries == 2
\* most files _scan_files returns
MaxFiles == 2

(* --------------------------- program constants ------------------------ *)

\* ChunkingConfig.chunk_size default
DefaultChunkSize == 1500
\* ChunkingConfig.chunk_overlap default
DefaultOverlap == 200
\* "if current_batch % 10 == 0": the cadence of the progress report
ProgressEvery == 10
\* "if self.code_processing.chunking.chunk_size < 100"
MinChunkSize == 100
\* the fraction bits of a double, the type of "current_size / len(current_chunk)"
DoubleFraction == 52

(* ------------------------------ strings ------------------------------- *)

NL == "\n"
\* the characters str.strip() removes, as far as the alphabet has them
Whitespace == {" ", NL}
Alphabet == {"a", " ", NL}
\* the separator of content.split('\n\n') and of '\n\n'.join
BlankLine == <<NL, NL>>
\* the separator of content.split('\n') and of '\n'.join
LineBreak == <<NL>>

Last(s) == s[Len(s)]

\* n copies of the character c
Rep(c, n) == [i \in 1..n |-> c]

\* s.find(sep, from): the first index >= from where sep occurs in s, 0 if none
Find(s, sep, from) ==
    LET Match(i) == SubSeq(s, i, i + Len(sep) - 1) = sep
        range == from..(Len(s) - Len(sep) + 1)
    IN  IF \E i \in range : Match(i)
        THEN CHOOSE i \in range : Match(i) /\ \A j \in from..(i - 1) : ~Match(j)
        ELSE 0

\* s.split(sep): the pieces between the non-overlapping occurrences of sep,
\* scanned left to right; empty pieces are kept
RECURSIVE SplitFrom(_, _, _)
SplitFrom(s, sep, from) ==
    LET i == Find(s, sep, from)
    IN  IF i = 0
        THEN << SubSeq(s, from, Len(s)) >>
        ELSE << SubSeq(s, from, i - 1) >> \o SplitFrom(s, sep, i + Len(sep))

Split(s, sep) == SplitFrom(s, sep, 1)

\* s.strip(): s without its leading and trailing whitespace
Strip(s) ==
    LET keep(i) == s[i] \notin Whitespace
    IN  IF \A i \in 1..Len(s) : ~keep(i)
        THEN << >>
        ELSE LET first == CHOOSE i \in 1..Len(s) :
                              keep(i) /\ \A j \in 1..(i - 1) : ~keep(j)
                 last  == CHOOSE i \in 1..Len(s) :
                              keep(i) /\ \A j \in (i + 1)..Len(s) : ~keep(j)
             IN  SubSeq(s, first, last)

\* sep.join(parts)
RECURSIVE Join(_, _)
Join(parts, sep) ==
    IF parts = << >> THEN << >>
    ELSE IF Len(parts) = 1 THEN parts[1]
    ELSE parts[1] \o sep \o Join(Tail(parts), sep)

\* sum(len(l) for l in parts)
RECURSIVE SumLen(_)
SumLen(parts) ==
    IF parts = << >> THEN 0 ELSE Len(parts[1]) + SumLen(Tail(parts))

\* the concatenation of a sequence of sequences
RECURSIVE Flatten(_)
Flatten(ss) ==
    IF ss = << >> THEN << >> ELSE ss[1] \o Flatten(Tail(ss))

(* ------------------------------ chunker ------------------------------- *)

\* the extensions SmartCodeChunker.chunk routes to _chunk_javascript
CodeExtensions == {".js", ".jsx", ".ts", ".tsx"}

\* the header lines of _create_chunk's f-string, up to the chunk number; the
\* model's metadata carries no layer and no feature, so the defaults show
Header(metadata, index) ==
    << "# File: ", metadata.file_path, NL,
       "# Layer: ", "unknown", NL,
       "# Feature: ", "N/A", NL,
       "# Chunk: ", ToString(index + 1) >>

\* where the chunk number stands in a rendered chunk
HeaderChunkPos == Len(Header([file_path |-> "f"], 0))

\* _create_chunk recording the length of the rendered text
CreateChunkRenderedSize(content, metadata, index) ==
    LET enhanced_content ==
            Header(metadata, index) \o <<NL, NL>> \o content \o <<NL>>
    IN  [ content  |-> Strip(enhanced_content),
          metadata |-> [ file_path   |-> metadata.file_path,
                         extension   |-> metadata.extension,
                         chunk_index |-> index,
                         chunk_size  |-> Len(Strip(enhanced_content)) ] ]

\* SmartCodeChunker._create_chunk
CreateChunk(content, metadata, index) ==
    LET enhanced_content ==
            Header(metadata, index) \o <<NL, NL>> \o content \o <<NL>>
    IN  [ content  |-> Strip(enhanced_content),
          metadata |-> [ file_path   |-> metadata.file_path,
                         extension   |-> metadata.extension,
                         chunk_index |-> index,
                         chunk_size  |-> Len(content) ] ]

\* SmartCodeChunker._split_by_constructs
SplitByConstructs(content) ==
    LET pieces   == Split(content, BlankLine)
        stripped == [i \in 1..Len(pieces) |-> Strip(pieces[i])]
        blocks   == SelectSeq(stripped, LAMBDA b : b # << >>)
    IN  IF blocks = << >> THEN << content >> ELSE blocks

\* The state of a chunking loop before its first iteration: the code's locals
\* chunks, current_chunk and current_size.  An entry of current_chunk is the
\* block or line (text) with, for the record, its position in the block or
\* line list (pos); carried is how many entries of current_chunk were seeded
\* from the chunk closed before, and emitted keeps the positions and the
\* carried count of every chunk appended to chunks.  No step reads pos,
\* carried or emitted.
LoopStart ==
    [ chunks |-> << >>, current_chunk |-> << >>, current_size |-> 0,
      carried |-> 0, emitted |-> << >> ]

Texts(current_chunk) == [k \in 1..Len(current_chunk) |-> current_chunk[k].text]
Positions(current_chunk) == [k \in 1..Len(current_chunk) |-> current_chunk[k].pos]

\* chunks.append numbering the chunks from 1
EmitCountsFromOne(st, sep, metadata) ==
    [ st EXCEPT
        !.chunks  = Append(@, CreateChunk(Join(Texts(st.current_chunk), sep),
                                          metadata, Len(st.chunks) + 1)),
        !.emitted = Append(@, [units   |-> Positions(st.current_chunk),
                               carried |-> st.carried]) ]

\* the loop state after
\* chunks.append(self._create_chunk(sep.join(current_chunk), metadata, len(chunks)))
Emit(st, sep, metadata) ==
    [ st EXCEPT
        !.chunks  = Append(@, CreateChunk(Join(Texts(st.current_chunk), sep),
                                          metadata, Len(st.chunks))),
        !.emitted = Append(@, [units   |-> Positions(st.current_chunk),
                               carried |-> st.carried]) ]

\* a threshold that keeps room for the overlap
ExceedsReserving(self, current_size, size) ==
    current_size + size > self.chunk_size - self.overlap

\* current_size + block_size > self.chunk_size, and the same for a line
Exceeds(self, current_size, size) == current_size + size > self.chunk_size

\* a new chunk seeded with nothing
SeedNothing(current_chunk, entry) == << entry >>

\* a new chunk seeded with the first block of the closed chunk
SeedFirst(current_chunk, entry) == << current_chunk[1], entry >>

\* a new chunk seeded with the last two blocks of the closed chunk
SeedLastTwo(current_chunk, entry) ==
    IF Len(current_chunk) >= 2
    THEN << current_chunk[Len(current_chunk) - 1], Last(current_chunk), entry >>
    ELSE << Last(current_chunk), entry >>

\* current_chunk = [current_chunk[-1], block]
SeedWithOverlap(current_chunk, entry) == << Last(current_chunk), entry >>

\* one iteration of the for loop of _chunk_javascript, on blocks[i] = block
JsStep(self, metadata, st, block, i) ==
    LET block_size == Len(block)
        entry == [text |-> block, pos |-> i]
    IN  IF Exceeds(self, st.current_size, block_size) /\ st.current_chunk # << >>
        THEN LET saved == Emit(st, BlankLine, metadata)
             IN  IF self.overlap > 0 /\ st.current_chunk # << >>
                 THEN LET current_chunk == SeedWithOverlap(st.current_chunk, entry)
                      IN  [ saved EXCEPT
                              !.current_chunk = current_chunk,
                              \* len(current_chunk[-1]) is read after the
                              \* assignment: it is the length of block
                              !.current_size  = Len(Last(current_chunk).text) + block_size,
                              !.carried       = Len(current_chunk) - 1 ]
                 ELSE [ saved EXCEPT
                          !.current_chunk = << entry >>,
                          !.current_size  = block_size,
                          !.carried       = 0 ]
        ELSE [ st EXCEPT
                 !.current_chunk = Append(@, entry),
                 !.current_size  = @ + block_size ]

\* a loop that passes over the blocks longer than chunk_size
RECURSIVE JsLoopSkipsOversized(_, _, _, _, _)
JsLoopSkipsOversized(self, metadata, st, blocks, i) ==
    IF i > Len(blocks) THEN st
    ELSE IF Len(blocks[i]) > self.chunk_size
    THEN JsLoopSkipsOversized(self, metadata, st, blocks, i + 1)
    ELSE JsLoopSkipsOversized(self, metadata,
                              JsStep(self, metadata, st, blocks[i], i), blocks, i + 1)

\* for block in blocks
RECURSIVE JsLoop(_, _, _, _, _)
JsLoop(self, metadata, st, blocks, i) ==
    IF i > Len(blocks) THEN st
    ELSE JsLoop(self, metadata, JsStep(self, metadata, st, blocks[i], i), blocks, i + 1)

\* the end of a chunking function without its "if current_chunk" block
FinishDropsRemainder(st, sep, content, metadata) ==
    IF st.chunks # << >>
    THEN st
    ELSE [ st EXCEPT
             !.chunks  = << CreateChunk(content, metadata, 0) >>,
             !.emitted = << [units |-> << >>, carried |-> 0] >> ]

\* what follows the for loop in both branches: the remaining chunk, and the
\* fallback of the return statement
Finish(st, sep, content, metadata) ==
    LET after == IF st.current_chunk # << >> THEN Emit(st, sep, metadata) ELSE st
    IN  IF after.chunks # << >>
        THEN after
        ELSE [ after EXCEPT
                 !.chunks  = << CreateChunk(content, metadata, 0) >>,
                 !.emitted = << [units |-> << >>, carried |-> 0] >> ]

\* SmartCodeChunker._chunk_javascript
ChunkJavascript(self, content, metadata) ==
    Finish(JsLoop(self, metadata, LoopStart, SplitByConstructs(content), 1),
           BlankLine, content, metadata)

\* 2^e modulo m
RECURSIVE PowMod2(_, _)
PowMod2(e, m) == IF e = 0 THEN 1 % m ELSE (2 * PowMod2(e - 1, m)) % m

\* the binary exponent of a / c for a >= c >= 1: the largest J with
\* c * 2^J <= a
RECURSIVE Exponent(_, _)
Exponent(a, c) == IF 2 * c <= a THEN 1 + Exponent(a, 2 * c) ELSE 0

\* the smallest p with n <= 2^p
RECURSIVE CeilLog2(_)
CeilLog2(n) == IF n <= 1 THEN 0 ELSE 1 + CeilLog2((n + 1) \div 2)

\* int(overlap / (current_size / count)) for current_size > count, the two
\* divisions being divisions of doubles, each rounded to the nearest double
\* (ties to even).  When overlap * count / current_size is no integer the
\* roundings are too small to change its integer part.  When it is an
\* integer n, the result is n - 1 exactly when current_size / count was
\* rounded up by so much that overlap / (the rounded value) rounds to a double
\* under n.  With J the exponent of current_size / count, its fraction bits
\* leave the remainder R of current_size * 2^(DoubleFraction - J) by count
\* (T is that remainder by 2 * count, which also tells the parity of the
\* last kept bit); it is rounded up by (count - R) / count of a unit in the
\* last place, and n less that relative error is compared with half the
\* distance from n to the double under it.
TruncatedQuotient(overlap, current_size, count) ==
    LET exact == (overlap * count) \div current_size
    IN  IF (overlap * count) % current_size # 0 \/ exact = 0
        THEN exact
        ELSE LET J  == Exponent(current_size, count)
                 T  == ((current_size % (2 * count))
                          * PowMod2(DoubleFraction - J, 2 * count)) % (2 * count)
                 R  == T % count
                 up == 2 * R > count \/ (2 * R = count /\ T >= count)
             IN  IF /\ up
                    /\ exact * (count - R) * 2 ^ (J + 2)
                          > current_size * 2 ^ CeilLog2(exact)
                 THEN exact - 1
                 ELSE exact

\* max(1, int(self.overlap / max(1, current_size / len(current_chunk)))):
\* max(1, x) is the integer 1 unless the average is over 1
OverlapLines(overlap, current_size, count) ==
    LET lines == IF current_size > count
                 THEN TruncatedQuotient(overlap, current_size, count)
                 ELSE overlap
    IN  IF lines > 1 THEN lines ELSE 1

\* seq[-n:] for n >= 1
Suffix(seq, n) ==
    IF n >= Len(seq) THEN seq ELSE SubSeq(seq, Len(seq) - n + 1, Len(seq))

\* one iteration of the for loop of _chunk_generic, on lines[i] = line
GenericStep(self, metadata, st, line, i) ==
    LET line_size == Len(line)
        entry == [text |-> line, pos |-> i]
    IN  IF Exceeds(self, st.current_size, line_size) /\ st.current_chunk # << >>
        THEN LET saved == Emit(st, LineBreak, metadata)
                 overlap_lines == OverlapLines(self.overlap, st.current_size,
                                               Len(st.current_chunk))
                 kept == Suffix(st.current_chunk, overlap_lines)
                 current_chunk == Append(kept, entry)
             IN  [ saved EXCEPT
                     !.current_chunk = current_chunk,
                     !.current_size  = SumLen(Texts(current_chunk)),
                     !.carried       = Len(kept) ]
        ELSE [ st EXCEPT
                 !.current_chunk = Append(@, entry),
                 !.current_size  = @ + line_size ]

\* for line in lines
RECURSIVE GenericLoop(_, _, _, _, _)
GenericLoop(self, metadata, st, lines, i) ==
    IF i > Len(lines) THEN st
    ELSE GenericLoop(self, metadata, GenericStep(self, metadata, st, lines[i], i),
                     lines, i + 1)

\* SmartCodeChunker._chunk_generic
ChunkGeneric(self, content, metadata) ==
    Finish(GenericLoop(self, metadata, LoopStart, Split(content, LineBreak), 1),
           LineBreak, content, metadata)

\* SmartCodeChunker.chunk, with the record of what each chunk was made of
ChunkRun(self, content, metadata) ==
    IF metadata.extension \in CodeExtensions
    THEN ChunkJavascript(self, content, metadata)
    ELSE ChunkGeneric(self, content, metadata)

\* the units chunk() works on: the blocks of the code branch, the lines of
\* the generic branch
UnitsOf(content, metadata) ==
    IF metadata.extension \in CodeExtensions
    THEN SplitByConstructs(content)
    ELSE Split(content, LineBreak)

\* the separator chunk() joins the units of a chunk with
SepOf(metadata) ==
    IF metadata.extension \in CodeExtensions THEN BlankLine ELSE LineBreak

(* ------------------------- embedding pipeline ------------------------- *)

\* the vector an embedding backend computes for a text
Vector(text) == [of |-> text]

\* what a backend call returns for texts when it returns count vectors: the
\* vectors of the texts, in order, cut short or followed by vectors of nothing
Response(texts, count) ==
    [j \in 1..count |-> IF j <= Len(texts) THEN Vector(texts[j]) ELSE Vector(0)]

\* chunks[batch_idx:batch_idx + batch_size] cut one chunk short
BatchOneShort(chunks_, batch_idx_, batch_size_) ==
    SubSeq(chunks_, batch_idx_ + 1,
           IF batch_idx_ + batch_size_ - 1 < Len(chunks_)
           THEN batch_idx_ + batch_size_ - 1 ELSE Len(chunks_))

\* chunks[batch_idx:batch_idx + batch_size], batch_idx counted from 0
Batch(chunks_, batch_idx_, batch_size_) ==
    SubSeq(chunks_, batch_idx_ + 1,
           IF batch_idx_ + batch_size_ < Len(chunks_)
           THEN batch_idx_ + batch_size_ ELSE Len(chunks_))

\* [chunk['content'] for chunk in batch]
TextsOf(batch) == [j \in 1..Len(batch) |-> batch[j].content]

\* {**chunk, 'embedding': embedding}
WithEmbedding(chunk, embedding) ==
    [content |-> chunk.content, metadata |-> chunk.metadata, embedding |-> embedding]

\* the chunks appended by "for chunk, embedding in zip(batch, embeddings)":
\* zip stops at the shorter of the two
ZipEnrich(batch, embeddings) ==
    LET n == IF Len(batch) < Len(embeddings) THEN Len(batch) ELSE Len(embeddings)
    IN  [j \in 1..n |-> WithEmbedding(batch[j], embeddings[j])]

\* the input list when the enriched chunks are written into the chunks of the
\* input themselves
InputAfterInPlace(chunks_, batch_idx_, enriched_) ==
    [i \in 1..Len(chunks_) |->
        IF i - batch_idx_ \in 1..Len(enriched_)
        THEN enriched_[i - batch_idx_] ELSE chunks_[i]]

\* the input list after a batch was enriched: {**chunk, 'embedding': ...}
\* builds a new dict for every chunk and writes to none of the input
InputAfter(chunks_, batch_idx_, enriched_) == chunks_

(* ------------------------------- state -------------------------------- *)

VARIABLES
    \* the chunker run
    pc,         \* "start" before chunk() is called, "done" after it returned
    chunker,    \* the SmartCodeChunker: [chunk_size, overlap]
    content,    \* the text of the file
    metadata,   \* the metadata record of the file
    chunks,     \* the list chunk() returned
    emitted,    \* for each returned chunk, the units it was made of
    \* the generate_embeddings run
    epc,              \* "idle", "call" (before the first call for a batch),
                      \* "retry" (in the retry loop), "returned", "raised"
    embedding,        \* config.embedding: [provider, batch_size, max_retries]
    embed_chunks,     \* the chunks argument
    enriched_chunks,  \* the list being built
    batch_idx,        \* the loop variable of the batch loop
    retry,            \* the loop variable of the retry loop
    calls,            \* the backend calls made: [batch, texts, sent, ok, got]
    sleeps,           \* the time.sleep calls, in order: [seconds, before],
                      \* before being the number of the backend call that follows
    progress,         \* the batch numbers logger.processing reported
    \* the run of main
    mpc,        \* "idle", "load", "validate", "init", "scan", "files",
                \* "processed", "embed", "export", "done", "exit1", "interrupted"
    args,       \* the command line: [dry_run, skip_embeddings]
    config,     \* what the run reads of the configuration besides
                \* config.embedding: [source_exists, chunk_size, api_key]
    scanned,    \* _scan_files was called
    files,      \* the files _scan_files returned
    file_idx,   \* how many of them the file loop went through
    all_chunks, \* the list process_codebase builds and returns
    stats,      \* vectorizer.stats: [files_processed, chunks_created, errors]
    outcomes,   \* for each file gone through: [raised, chunks]
    exported    \* the lists VectorExporter.export was called with

chunkVars == << pc, chunker, content, metadata, chunks, emitted >>
embedVars == << epc, embedding, embed_chunks, enriched_chunks, batch_idx, retry,
                calls, sleeps, progress >>
mainVars == << mpc, args, config, scanned, files, file_idx, all_chunks, stats,
               outcomes, exported >>
vars == << chunkVars, embedVars, mainVars >>

\* every string of at most MaxLen characters
FreeContents == UNION { [1..n -> Alphabet] : n \in 0..MaxLen }

\* 1..MaxUnits units of 1..MaxUnitLen characters, separated by blank lines
\* or by line breaks
UnitContents ==
    { Join([i \in 1..n |-> Rep("a", lens[i])], sep) :
        lens \in [1..MaxUnits -> 1..MaxUnitLen],
        n \in 1..MaxUnits, sep \in {BlankLine, LineBreak} }

\* three blocks of ScenarioBlockLen characters separated by blank lines
ScenarioContent ==
    Join([i \in 1..3 |-> Rep("a", ScenarioBlockLen)], BlankLine)

\* seven lines of 9 characters in all, and an eighth that closes their chunk
\* when chunk_size = 9: the average line length 9 / 7 is no double
RoundingContent ==
    Join([i \in 1..8 |-> Rep("a", IF i <= 2 THEN 2 ELSE 1)], LineBreak)

Metadata(extension) == [file_path |-> "f", extension |-> extension]

\* no chunker run
ChunkIdle ==
    /\ pc = "idle"
    /\ chunks = << >>
    /\ emitted = << >>
    /\ content = << >>
    /\ metadata = Metadata(".js")
    /\ chunker = [chunk_size |-> DefaultChunkSize, overlap |-> DefaultOverlap]

\* no generate_embeddings run
EmbedIdle ==
    /\ epc = "idle"
    /\ embedding = [provider |-> "openai", batch_size |-> 1, max_retries |-> 1]
    /\ embed_chunks = << >>
    /\ enriched_chunks = << >>
    /\ batch_idx = 0
    /\ retry = 0
    /\ calls = << >>
    /\ sleeps = << >>
    /\ progress = << >>

\* self.stats as __init__ sets it
NoStats == [files_processed |-> 0, chunks_created |-> 0, errors |-> 0]

\* no run of main
MainIdle ==
    /\ mpc = "idle"
    /\ args = [dry_run |-> FALSE, skip_embeddings |-> FALSE]
    /\ config = [source_exists |-> TRUE, chunk_size |-> DefaultChunkSize,
                 api_key |-> TRUE]
    /\ scanned = FALSE
    /\ files = << >>
    /\ file_idx = 0
    /\ all_chunks = << >>
    /\ stats = NoStats
    /\ outcomes = << >>
    /\ exported = << >>

ChunkInit ==
    /\ pc = "start"
    /\ chunks = << >>
    /\ emitted = << >>
    /\ \/ /\ content \in FreeContents \cup UnitContents
          /\ metadata \in { Metadata(e) : e \in {".js", ".md"} }
          /\ chunker \in [chunk_size : 1..MaxChunkSize, overlap : 0..MaxOverlap]
       \/ /\ content = ScenarioContent
          /\ metadata = Metadata(".js")
          /\ chunker = [chunk_size |-> DefaultChunkSize, overlap |-> DefaultOverlap]
       \/ /\ content = RoundingContent
          /\ metadata = Metadata(".md")
          /\ chunker = [chunk_size |-> 9, overlap |-> 9]

\* a call of SmartCodeChunker.chunk(content, metadata)
Chunk ==
    /\ pc = "start"
    /\ LET run == ChunkRun(chunker, content, metadata)
       IN  /\ chunks' = run.chunks
           /\ emitted' = run.emitted
    /\ pc' = "done"
    /\ UNCHANGED << chunker, content, metadata >>
    /\ UNCHANGED << embedVars, mainVars >>

Init == ChunkInit /\ EmbedIdle /\ MainIdle
Next == Chunk
Spec == Init /\ [][Next]_vars

\* n chunks as process_codebase hands them over, told apart by their content
InputChunks(n) ==
    [k \in 1..n |-> [content |-> k, metadata |-> [chunk_index |-> k - 1]]]

\* the entry of generate_embeddings(chunks): short runs under every
\* configuration, and runs of ProgressEvery batches of one chunk
EmbedInit ==
    /\ epc = "call"
    /\ \/ /\ embedding \in [ provider : {"local", "openai"},
                             batch_size : 1..MaxBatchSize,
                             max_retries : 0..MaxRetries ]
          /\ embed_chunks \in { InputChunks(n) : n \in 0..MaxChunks }
       \/ /\ embedding \in [ provider : {"local", "openai"},
                             batch_size : {1},
                             max_retries : {1} ]
          /\ embed_chunks = InputChunks(ProgressEvery)
    /\ enriched_chunks = << >>
    /\ batch_idx = 0
    /\ retry = 0
    /\ calls = << >>
    /\ sleeps = << >>
    /\ progress = << >>

batch == Batch(embed_chunks, batch_idx, embedding.batch_size)
texts == TextsOf(batch)
current_batch == (batch_idx \div embedding.batch_size) + 1
total_batches ==
    (Len(embed_chunks) + embedding.batch_size - 1) \div embedding.batch_size
\* the numbers of vectors a call for the batch may return: the backend may
\* break its contract by one vector too few or one too many (followed in the
\* short runs of generate_embeddings on its own only)
VectorCounts ==
    IF mpc = "idle" /\ Len(embed_chunks) <= MaxChunks
    THEN 0..(Len(batch) + 1) ELSE {Len(batch)}

Call(ok, got) ==
    [batch |-> current_batch, texts |-> texts, sent |-> Len(texts),
     ok |-> ok, got |-> got]

\* a backoff that doubles from 2 seconds
BackoffFromTwo(retry_) == 2 ^ (retry_ + 1)

\* 2 ** retry, the argument of time.sleep
Backoff(retry_) == 2 ^ retry_

\* the sleep before the backend call that comes next
Sleep(retry_) == [seconds |-> Backoff(retry_), before |-> Len(calls) + 1]

\* no provider fails without retry
FailsFastNever(provider) == FALSE

\* if self.embedding_provider == "local": raise
FailsFast(provider) == provider = "local"

\* the batch loop goes to its next iteration
NextBatch ==
    /\ batch_idx' = batch_idx + embedding.batch_size
    /\ epc' = "call"
    /\ retry' = 0

\* the first call for a batch returns count vectors: they are zipped onto the
\* batch, and every 10th batch is reported
FirstCallReturns ==
    /\ epc = "call"
    /\ batch_idx < Len(embed_chunks)
    /\ \E count \in VectorCounts :
          /\ calls' = Append(calls, Call(TRUE, count))
          /\ enriched_chunks' = enriched_chunks \o ZipEnrich(batch, Response(texts, count))
          /\ embed_chunks' = InputAfter(embed_chunks, batch_idx,
                                        ZipEnrich(batch, Response(texts, count)))
    /\ progress' = IF current_batch % ProgressEvery = 0
                   THEN Append(progress, current_batch) ELSE progress
    /\ NextBatch
    /\ UNCHANGED << embedding, sleeps >>
    /\ UNCHANGED << chunkVars, mainVars >>

\* the first call for a batch raises: the local provider re-raises, the
\* remote one enters "for retry in range(max_retries)", which has no
\* iteration when max_retries = 0
FirstCallRaises ==
    /\ epc = "call"
    /\ batch_idx < Len(embed_chunks)
    /\ calls' = Append(calls, Call(FALSE, 0))
    /\ IF FailsFast(embedding.provider)
       THEN epc' = "raised" /\ UNCHANGED << batch_idx, retry >>
       ELSE IF embedding.max_retries = 0
       THEN NextBatch
       ELSE epc' = "retry" /\ retry' = 0 /\ UNCHANGED batch_idx
    /\ UNCHANGED << embedding, embed_chunks, enriched_chunks, sleeps, progress >>
    /\ UNCHANGED << chunkVars, mainVars >>

\* a successful call of the retry loop that is not followed by "break"
RetryReturnsKeepsLooping ==
    /\ epc = "retry"
    /\ sleeps' = Append(sleeps, Sleep(retry))
    /\ \E count \in VectorCounts :
          /\ calls' = Append(calls, Call(TRUE, count))
          /\ enriched_chunks' = enriched_chunks \o ZipEnrich(batch, Response(texts, count))
          /\ embed_chunks' = InputAfter(embed_chunks, batch_idx,
                                        ZipEnrich(batch, Response(texts, count)))
    /\ IF retry + 1 < embedding.max_retries
       THEN epc' = "retry" /\ retry' = retry + 1 /\ UNCHANGED batch_idx
       ELSE NextBatch
    /\ UNCHANGED << embedding, progress >>
    /\ UNCHANGED << chunkVars, mainVars >>

\* a call of the retry loop, after time.sleep(2 ** retry), returns count
\* vectors: they are zipped onto the batch and the loop breaks
RetryReturns ==
    /\ epc = "retry"
    /\ sleeps' = Append(sleeps, Sleep(retry))
    /\ \E count \in VectorCounts :
          /\ calls' = Append(calls, Call(TRUE, count))
          /\ enriched_chunks' = enriched_chunks \o ZipEnrich(batch, Response(texts, count))
          /\ embed_chunks' = InputAfter(embed_chunks, batch_idx,
                                        ZipEnrich(batch, Response(texts, count)))
    /\ NextBatch
    /\ UNCHANGED << embedding, progress >>
    /\ UNCHANGED << chunkVars, mainVars >>

\* a test for the last retry that looks one iteration too far
IsLastRetryOffByOne(retry_, max_retries) == retry_ = max_retries

\* if retry == self.config.embedding.max_retries - 1
IsLastRetry(retry_, max_retries) == retry_ = max_retries - 1

\* a call of the retry loop raises: the last iteration re-raises, the others
\* go on with the next value of range(max_retries), after which the loop ends
RetryRaises ==
    /\ epc = "retry"
    /\ sleeps' = Append(sleeps, Sleep(retry))
    /\ calls' = Append(calls, Call(FALSE, 0))
    /\ IF IsLastRetry(retry, embedding.max_retries)
       THEN epc' = "raised" /\ UNCHANGED << retry, batch_idx >>
       ELSE IF retry + 1 < embedding.max_retries
       THEN epc' = "retry" /\ retry' = retry + 1 /\ UNCHANGED batch_idx
       ELSE NextBatch
    /\ UNCHANGED << embedding, embed_chunks, enriched_chunks, progress >>
    /\ UNCHANGED << chunkVars, mainVars >>

\* the batch loop is over: return enriched_chunks
Return ==
    /\ epc = "call"
    /\ batch_idx >= Len(embed_chunks)
    /\ epc' = "returned"
    /\ UNCHANGED << embedding, embed_chunks, enriched_chunks, batch_idx, retry,
                    calls, sleeps, progress >>
    /\ UNCHANGED << chunkVars, mainVars >>

InitEmbed == ChunkIdle /\ EmbedInit /\ MainIdle
NextEmbed ==
    \/ FirstCallReturns
    \/ FirstCallRaises
    \/ RetryReturns
    \/ RetryRaises
    \/ Return
SpecEmbed == InitEmbed /\ [][NextEmbed]_vars

(* ------------------------------ main() -------------------------------- *)

\* the start of main, after parse_args
MainInit ==
    /\ mpc = "load"
    /\ args \in [dry_run : BOOLEAN, skip_embeddings : BOOLEAN]
    /\ config = [source_exists |-> TRUE, chunk_size |-> DefaultChunkSize,
                 api_key |-> TRUE]
    /\ scanned = FALSE
    /\ files = << >>
    /\ file_idx = 0
    /\ all_chunks = << >>
    /\ stats = NoStats
    /\ outcomes = << >>
    /\ exported = << >>

\* Config.from_yaml raises: sys.exit(1)
LoadConfigRaises ==
    /\ mpc = "load"
    /\ mpc' = "exit1"
    /\ UNCHANGED << args, config, scanned, files, file_idx, all_chunks, stats,
                    outcomes, exported >>
    /\ UNCHANGED << chunkVars, embedVars >>

\* Config.from_yaml returns a configuration, the command line overrides its
\* paths; api_key is whether OPENAI_API_KEY is set in the environment
LoadConfig ==
    /\ mpc = "load"
    /\ config' \in [ source_exists : BOOLEAN,
                     chunk_size : {MinChunkSize - 1, MinChunkSize},
                     api_key : BOOLEAN ]
    /\ embedding' \in [ provider : {"local", "openai", "cohere"},
                        batch_size : 1..MaxBatchSize,
                        max_retries : 0..MaxRetries ]
    /\ mpc' = "validate"
    /\ UNCHANGED << args, scanned, files, file_idx, all_chunks, stats,
                    outcomes, exported >>
    /\ UNCHANGED << epc, embed_chunks, enriched_chunks, batch_idx, retry, calls,
                    sleeps, progress >>
    /\ UNCHANGED chunkVars

\* a validate that has no minimum for the chunk size
ValidateRaisesNoMinimum(config_) == ~config_.source_exists

\* Config.validate raises ValueError
ValidateRaises(config_) ==
    \/ ~config_.source_exists
    \/ config_.chunk_size < MinChunkSize

\* config.validate(): sys.exit(1) when it raises
Validate ==
    /\ mpc = "validate"
    /\ mpc' = IF ValidateRaises(config) THEN "exit1" ELSE "init"
    /\ UNCHANGED << args, config, scanned, files, file_idx, all_chunks, stats,
                    outcomes, exported >>
    /\ UNCHANGED << chunkVars, embedVars >>

\* CodeVectorizer.__init__ raises ValueError: the provider is unknown, or it
\* is "openai" and OPENAI_API_KEY is not set
InitRaises(embedding_, config_) ==
    \/ embedding_.provider \notin {"local", "openai"}
    \/ embedding_.provider = "openai" /\ ~config_.api_key

\* CodeVectorizer(config, logger): a ValueError ends the run with exit code 1
InitVectorizer ==
    /\ mpc = "init"
    /\ mpc' = IF InitRaises(embedding, config) THEN "exit1" ELSE "scan"
    /\ stats' = NoStats
    /\ UNCHANGED << args, config, scanned, files, file_idx, all_chunks,
                    outcomes, exported >>
    /\ UNCHANGED << chunkVars, embedVars >>

\* process_codebase starts: files = self._scan_files(root)
ScanFiles ==
    /\ mpc = "scan"
    /\ \E n \in 0..MaxFiles : files' = [f \in 1..n |-> f]
    /\ scanned' = TRUE
    /\ all_chunks' = << >>
    /\ file_idx' = 0
    /\ mpc' = "files"
    /\ UNCHANGED << args, config, stats, outcomes, exported >>
    /\ UNCHANGED << chunkVars, embedVars >>

\* the n chunks SmartCodeChunker.chunk returns for file f, told apart by
\* their content
FileChunks(f, n, before) ==
    [j \in 1..n |-> [content |-> before + j,
                     metadata |-> [chunk_index |-> j - 1, file |-> f]]]

\* self.stats['files_processed'] += 1
CountFile(stats_) == [stats_ EXCEPT !.files_processed = @ + 1]

\* an except branch that counts nothing
CountErrorNot(stats_) == stats_

\* self.stats['errors'] += 1
CountError(stats_) == [stats_ EXCEPT !.errors = @ + 1]

\* an iteration of the file loop in which _process_file returns its chunks
\* (at least one: chunk() returns no empty list); the run keeps at most
\* MaxChunks chunks in all
ProcessFileOk ==
    /\ mpc = "files"
    /\ file_idx < Len(files)
    /\ \E n \in 1..(MaxChunks - Len(all_chunks)) :
          /\ all_chunks' = all_chunks \o FileChunks(files[file_idx + 1], n, Len(all_chunks))
          /\ outcomes' = Append(outcomes, [raised |-> FALSE, chunks |-> n])
    /\ stats' = CountFile(stats)
    /\ file_idx' = file_idx + 1
    /\ UNCHANGED << mpc, args, config, scanned, files, exported >>
    /\ UNCHANGED << chunkVars, embedVars >>

\* an iteration of the file loop in which _process_file raises
ProcessFileRaises ==
    /\ mpc = "files"
    /\ file_idx < Len(files)
    /\ stats' = CountError(stats)
    /\ outcomes' = Append(outcomes, [raised |-> TRUE, chunks |-> 0])
    /\ file_idx' = file_idx + 1
    /\ UNCHANGED << mpc, args, config, scanned, files, all_chunks, exported >>
    /\ UNCHANGED << chunkVars, embedVars >>

\* the file loop is over: chunks_created is set and all_chunks returned
ProcessCodebaseReturns ==
    /\ mpc = "files"
    /\ file_idx = Len(files)
    /\ stats' = [stats EXCEPT !.chunks_created = Len(all_chunks)]
    /\ mpc' = "processed"
    /\ UNCHANGED << args, config, scanned, files, file_idx, all_chunks,
                    outcomes, exported >>
    /\ UNCHANGED << chunkVars, embedVars >>

\* a dry run that logs and goes on instead of returning
DryRunGoesOn ==
    /\ mpc = "processed"
    /\ args.dry_run
    /\ mpc' = "export"
    /\ UNCHANGED << args, config, scanned, files, file_idx, all_chunks, stats,
                    outcomes, exported >>
    /\ UNCHANGED << chunkVars, embedVars >>

\* if args.dry_run: return
DryRun ==
    /\ mpc = "processed"
    /\ args.dry_run
    /\ mpc' = "done"
    /\ UNCHANGED << args, config, scanned, files, file_idx, all_chunks, stats,
                    outcomes, exported >>
    /\ UNCHANGED << chunkVars, embedVars >>

\* --skip-embeddings: chunks stays the list process_codebase returned
SkipEmbeddings ==
    /\ mpc = "processed"
    /\ ~args.dry_run
    /\ args.skip_embeddings
    /\ mpc' = "export"
    /\ UNCHANGED << args, config, scanned, files, file_idx, all_chunks, stats,
                    outcomes, exported >>
    /\ UNCHANGED << chunkVars, embedVars >>

\* chunks = vectorizer.generate_embeddings(chunks) is entered
CallGenerateEmbeddings ==
    /\ mpc = "processed"
    /\ ~args.dry_run
    /\ ~args.skip_embeddings
    /\ mpc' = "embed"
    /\ epc' = "call"
    /\ embed_chunks' = all_chunks
    /\ enriched_chunks' = << >>
    /\ batch_idx' = 0
    /\ retry' = 0
    /\ UNCHANGED << embedding, calls, sleeps, progress >>
    /\ UNCHANGED << args, config, scanned, files, file_idx, all_chunks, stats,
                    outcomes, exported >>
    /\ UNCHANGED chunkVars

\* generate_embeddings returned: chunks is the enriched list
EmbeddingsReturned ==
    /\ mpc = "embed"
    /\ epc = "returned"
    /\ mpc' = "export"
    /\ UNCHANGED << args, config, scanned, files, file_idx, all_chunks, stats,
                    outcomes, exported >>
    /\ UNCHANGED << chunkVars, embedVars >>

\* a handler that goes on to the export with what was embedded so far
EmbeddingsRaisedExportsAnyway ==
    /\ mpc = "embed"
    /\ epc = "raised"
    /\ mpc' = "export"
    /\ UNCHANGED << args, config, scanned, files, file_idx, all_chunks, stats,
                    outcomes, exported >>
    /\ UNCHANGED << chunkVars, embedVars >>

\* generate_embeddings raised: "except Exception" logs and calls sys.exit(1)
EmbeddingsRaised ==
    /\ mpc = "embed"
    /\ epc = "raised"
    /\ mpc' = "exit1"
    /\ UNCHANGED << args, config, scanned, files, file_idx, all_chunks, stats,
                    outcomes, exported >>
    /\ UNCHANGED << chunkVars, embedVars >>

\* the local variable chunks of main when the exporter is called
main_chunks == IF args.skip_embeddings THEN all_chunks ELSE enriched_chunks

\* VectorExporter(config, logger).export(chunks): it returns, or it raises
\* (unsupported format, I/O error) and the run ends with exit code 1
Export ==
    /\ mpc = "export"
    /\ exported' = Append(exported, main_chunks)
    /\ mpc' \in {"done", "exit1"}
    /\ UNCHANGED << args, config, scanned, files, file_idx, all_chunks, stats,
                    outcomes >>
    /\ UNCHANGED << chunkVars, embedVars >>

\* KeyboardInterrupt while main runs: it passes every "except Exception",
\* also those of generate_embeddings, and ends the process
Interrupt ==
    /\ mpc \in {"load", "validate", "init", "scan", "files", "processed",
                "embed", "export"}
    /\ mpc' = "interrupted"
    /\ epc' = IF epc \in {"call", "retry"} THEN "raised" ELSE epc
    /\ UNCHANGED << embedding, embed_chunks, enriched_chunks, batch_idx, retry,
                    calls, sleeps, progress >>
    /\ UNCHANGED << args, config, scanned, files, file_idx, all_chunks, stats,
                    outcomes, exported >>
    /\ UNCHANGED chunkVars

InitMain == ChunkIdle /\ EmbedIdle /\ MainInit
NextMain ==
    \/ LoadConfigRaises
    \/ LoadConfig
    \/ Validate
    \/ InitVectorizer
    \/ ScanFiles
    \/ ProcessFileOk
    \/ ProcessFileRaises
    \/ ProcessCodebaseReturns
    \/ DryRun
    \/ SkipEmbeddings
    \/ CallGenerateEmbeddings
    \/ FirstCallReturns
    \/ FirstCallRaises
    \/ RetryReturns
    \/ RetryRaises
    \/ Return
    \/ EmbeddingsReturned
    \/ EmbeddingsRaised
    \/ Export
    \/ Interrupt
SpecMain == InitMain /\ [][NextMain]_vars

(* ----------------------- properties of the chunker -------------------- *)

Done == pc = "done"
IsCode == metadata.extension \in CodeExtensions
\* the blocks (code branch) or lines (generic branch) of the content
Units == UnitsOf(content, metadata)
UnitsIn(j) == emitted[j].units
\* the units of chunk j that were not carried over from chunk j - 1
NewUnitsIn(j) == SubSeq(UnitsIn(j), emitted[j].carried + 1, Len(UnitsIn(j)))
UnitSet(j) == { UnitsIn(j)[k] : k \in 1..Len(UnitsIn(j)) }
\* the body of chunk j: its units joined by the branch's separator
BodyOf(j) ==
    Join([k \in 1..Len(UnitsIn(j)) |-> Units[UnitsIn(j)[k]]], SepOf(metadata))
\* what the rendered chunk j holds after its header
TextOf(j) == SubSeq(chunks[j].content, HeaderChunkPos + 1, Len(chunks[j].content))
\* s without its trailing whitespace
RStrip(s) ==
    IF \A i \in 1..Len(s) : s[i] \in Whitespace
    THEN << >>
    ELSE SubSeq(s, 1, CHOOSE i \in 1..Len(s) :
                          /\ s[i] \notin Whitespace
                          /\ \A j \in (i + 1)..Len(s) : s[j] \in Whitespace)
\* a body as it shows after the header: a blank line, then the body less its
\* trailing whitespace; nothing at all for a body of whitespace only
Shown(body) == IF RStrip(body) = << >> THEN << >> ELSE <<NL, NL>> \o RStrip(body)
\* chunk j is the rendering of the units recorded for it, each one whole
MadeOfItsUnits(j) ==
    /\ UnitsIn(j) # << >>
    /\ chunks[j].metadata.chunk_size = Len(BodyOf(j))
    /\ TextOf(j) = Shown(BodyOf(j))
IsScenario ==
    /\ content = ScenarioContent
    /\ IsCode
    /\ chunker = [chunk_size |-> DefaultChunkSize, overlap |-> DefaultOverlap]

C2_IndexesContiguous ==
    Done =>
        /\ Len(chunks) >= 1
        /\ \A j \in 1..Len(chunks) :
              /\ chunks[j].metadata.chunk_index = j - 1
              /\ Len(chunks[j].content) >= HeaderChunkPos
              /\ SubSeq(chunks[j].content, 1, HeaderChunkPos)
                     = Header(metadata, chunks[j].metadata.chunk_index)

C2_Witness == Done /\ Len(chunks) >= 3

\* C3 as stated: three blocks of 1000 characters with chunk_size = 1500 and
\* overlap = 200 give exactly 2 chunks, the second beginning with the last
\* block of the first.
C3_TwoChunks ==
    (Done /\ IsScenario) =>
        /\ Len(chunks) = 2
        /\ UnitsIn(2)[1] = Last(UnitsIn(1))

\* C3 amended: the scenario gives exactly 3 chunks (block 1; blocks 1, 2;
\* blocks 2, 3), the second beginning with the last block of the first.
C3_ThreeChunks ==
    (Done /\ IsScenario) =>
        /\ Len(chunks) = 3
        /\ UnitsIn(1) = <<1>> /\ UnitsIn(2) = <<1, 2>> /\ UnitsIn(3) = <<2, 3>>
        /\ UnitsIn(2)[1] = Last(UnitsIn(1))
        /\ \A j \in 1..3 : MadeOfItsUnits(j)
        /\ SubSeq(TextOf(2), 3, 2 + ScenarioBlockLen) = Units[Last(UnitsIn(1))]

C3_Witness == Done /\ IsScenario /\ Len(Units) = 3

\* C4: in the code branch with overlap > 0 every chunk after the first starts
\* with the last block of the chunk before it, followed by the block that
\* closed that chunk, and adjacent chunks share exactly one block; with
\* overlap = 0 it starts with the closing block and no block is in two chunks.
C4_OverlapPolicy ==
    (Done /\ IsCode) =>
        \A j \in 1..(Len(chunks) - 1) :
            /\ MadeOfItsUnits(j) /\ MadeOfItsUnits(j + 1)
            /\ IF chunker.overlap > 0
               THEN /\ Len(UnitsIn(j + 1)) >= 2
                    /\ UnitsIn(j + 1)[1] = Last(UnitsIn(j))
                    /\ UnitsIn(j + 1)[2] = Last(UnitsIn(j)) + 1
                    /\ Cardinality(UnitSet(j) \cap UnitSet(j + 1)) = 1
               ELSE /\ UnitsIn(j + 1)[1] = Last(UnitsIn(j)) + 1
                    /\ \A k \in 1..Len(chunks) :
                           k # j => UnitSet(j) \cap UnitSet(k) = {}

C4_Witness ==
    /\ Done /\ IsCode
    /\ chunker.overlap > 0
    /\ Len(chunks) >= 3
    /\ Len(UnitsIn(1)) >= 2

\* the blocks longer than chunk_size
Oversized == { i \in 1..Len(Units) : Len(Units[i]) > chunker.chunk_size }
\* a block of whitespace only: the whole of a content without any other block
Blank(i) == Strip(Units[i]) = << >>

\* C5 as stated: in the code branch, for any overlap, a block longer than
\* chunk_size is emitted whole as a chunk holding that block and no other.
C5_OversizedAlone ==
    (Done /\ IsCode) =>
        \A i \in Oversized :
            \E j \in 1..Len(chunks) : UnitsIn(j) = <<i>> /\ MadeOfItsUnits(j)

\* C5 amended: in the code branch, for any overlap, a block longer than
\* chunk_size is emitted whole in some chunk: its characters stand, all of
\* them, at the end of that chunk's text (unless the block is the whitespace
\* of a content without blocks); with overlap = 0 the chunk holds that block
\* and no other, with overlap > 0 it holds at most one more block, the one
\* carried over from the chunk before.
C5_OversizedWhole ==
    (Done /\ IsCode) =>
        \A i \in Oversized :
            \E j \in 1..Len(chunks) :
                /\ MadeOfItsUnits(j)
                /\ Last(UnitsIn(j)) = i
                /\ Blank(i) \/
                   SubSeq(TextOf(j), Len(TextOf(j)) - Len(Units[i]) + 1,
                          Len(TextOf(j))) = Units[i]
                /\ IF chunker.overlap = 0
                   THEN UnitsIn(j) = <<i>>
                   ELSE UnitsIn(j) = <<i>> \/
                        (UnitsIn(j) = <<i - 1, i>> /\ emitted[j].carried = 1)

C5_Witness ==
    /\ Done /\ IsCode
    /\ chunker.overlap = 0
    /\ Len(Units) >= 3
    /\ \E i \in Oversized : i > 1 /\ i < Len(Units)

\* C6: a content of at most chunk_size characters gives, in either branch
\* and for any overlap, exactly one chunk, with chunk_index 0.
C6_SmallContentOneChunk ==
    (Done /\ Len(content) <= chunker.chunk_size) =>
        /\ Len(chunks) = 1
        /\ chunks[1].metadata.chunk_index = 0
        /\ UnitsIn(1) = [i \in 1..Len(Units) |-> i]

C6_Witness ==
    /\ Done
    /\ Len(content) = chunker.chunk_size
    /\ Len(Units) >= 2
    /\ chunker.overlap > 0

\* C7: the empty content gives, in both branches, exactly one chunk with an
\* empty body, chunk_size = 0 and chunk_index = 0.
C7_EmptyContent ==
    (Done /\ content = << >>) =>
        /\ Len(chunks) = 1
        /\ chunks[1].content = Header(metadata, 0)
        /\ chunks[1].metadata.chunk_size = 0
        /\ chunks[1].metadata.chunk_index = 0

C7_Witness == Done /\ content = << >> /\ Len(chunks) = 1

(* ------------------ properties of the embedding pipeline -------------- *)

Returned == epc = "returned"
\* the batch numbers for which a backend call was made
BatchesCalled == { calls[k].batch : k \in 1..Len(calls) }
CallsFor(b) == { k \in 1..Len(calls) : calls[k].batch = b }
\* every call returned as many vectors as it was sent texts
CountsMatch == \A k \in 1..Len(calls) : calls[k].ok => calls[k].got = calls[k].sent
\* the output chunk for input chunk i: the chunk plus its content's vector
Enriched(i) == WithEmbedding(embed_chunks[i], Vector(embed_chunks[i].content))

\* C8 as stated: when generate_embeddings returns normally (the backend
\* having returned one vector per text), the output is as long as the input
\* and output chunk i is input chunk i plus the vector of its content, for
\* every batch_size and whether or not batches needed retries.
C8_OutputMatchesInput ==
    (Returned /\ CountsMatch) =>
        /\ Len(enriched_chunks) = Len(embed_chunks)
        /\ \A i \in 1..Len(embed_chunks) : enriched_chunks[i] = Enriched(i)

\* C9 as stated: a call that returns a number of vectors different from the
\* number of texts sent is fatal, generate_embeddings never returns after it.
C9_CountMismatchIsFatal == Returned => CountsMatch

\* C10 as stated: for every max_retries >= 0, when every remote call for
\* some batch failed, generate_embeddings does not return.
C10_ExhaustionPropagates ==
    (Returned /\ embedding.provider = "openai") =>
        \A b \in BatchesCalled : \E k \in CallsFor(b) : calls[k].ok


\* batch b is behind the run: the batch loop went past it, or the run ended
Over(b) == b < current_batch \/ epc \in {"returned", "raised"}
Remote == embedding.provider = "openai"
FailedCallsFor(b) == { k \in CallsFor(b) : ~calls[k].ok }
AllFailed(b) == FailedCallsFor(b) = CallsFor(b)
\* the chunks of batch b
BatchNo(b) == Batch(embed_chunks, (b - 1) * embedding.batch_size, embedding.batch_size)
\* the output chunks that come from batch b
OutputOf(b) ==
    { i \in 1..Len(enriched_chunks) :
        \E j \in 1..Len(BatchNo(b)) : enriched_chunks[i].content = BatchNo(b)[j].content }
\* how many calls for the batch of call k came before call k
EarlierCalls(k) == Cardinality({ l \in CallsFor(calls[k].batch) : l < k })
SleepsBefore(k) == { i \in 1..Len(sleeps) : sleeps[i].before = k }

C13_LocalFailsFast ==
    (embedding.provider = "local") =>
        /\ sleeps = << >>
        /\ epc # "retry"
        /\ \A k \in 1..Len(calls) :
              ~calls[k].ok => (k = Len(calls) /\ epc = "raised")

C13_Witness ==
    /\ embedding.provider = "local"
    /\ epc = "raised"
    /\ Len(calls) >= 2
    /\ current_batch < total_batches

\* C14: the chunks are cut into ceil(n / batch_size) consecutive batches, each
\* of batch_size chunks but the last, which has 1..batch_size; the backend is
\* called with the batches in that order, and the batches put end to end are
\* the input.
C14_BatchesPartitionInput ==
    /\ \A k \in 1..Len(calls) :
          /\ calls[k].batch \in 1..total_batches
          /\ calls[k].sent \in 1..embedding.batch_size
          /\ (calls[k].batch - 1) * embedding.batch_size + calls[k].sent
                 <= Len(embed_chunks)
          /\ calls[k].texts =
                 [j \in 1..calls[k].sent |->
                     embed_chunks[(calls[k].batch - 1) * embedding.batch_size + j].content]
          /\ calls[k].batch < total_batches => calls[k].sent = embedding.batch_size
          /\ k = 1 => calls[k].batch = 1
          /\ k > 1 => calls[k].batch \in {calls[k - 1].batch, calls[k - 1].batch + 1}
    /\ epc # "idle" =>
          /\ total_batches * embedding.batch_size >= Len(embed_chunks)
          /\ (total_batches - 1) * embedding.batch_size < Len(embed_chunks)
    /\ Returned =>
          /\ BatchesCalled = 1..total_batches
          /\ Flatten([b \in 1..total_batches |->
                         calls[CHOOSE k \in CallsFor(b) : TRUE].texts])
                 = TextsOf(embed_chunks)

C14_Witness ==
    /\ Returned
    /\ Len(embed_chunks) = 3
    /\ embedding.batch_size = 2
    /\ Len(calls) >= 3

\* C15: a batch is sent again only after a failed call for that batch, within
\* its retry loop: no call follows a successful call for the same batch, the
\* batches are never gone back to, and no chunk is twice in the output.
C15_NoRepeatAfterSuccess ==
    /\ \A k \in 1..Len(calls) : \A l \in 1..Len(calls) :
          k < l =>
              /\ calls[k].batch <= calls[l].batch
              /\ calls[k].batch = calls[l].batch => (~calls[k].ok /\ Remote)
    /\ \A i \in 1..Len(enriched_chunks) : \A j \in 1..Len(enriched_chunks) :
          enriched_chunks[i].content = enriched_chunks[j].content => i = j

C15_Witness ==
    /\ Returned
    /\ embedding.max_retries = 2
    /\ Len(enriched_chunks) >= 3
    /\ \E b \in BatchesCalled : Cardinality(CallsFor(b)) = 2 /\ b < total_batches

\* the entries of progress
Reported == { progress[i] : i \in 1..Len(progress) }

\* C19 as stated: "N/M batches complete" is reported for every completed
\* batch whose number is a multiple of 10, also when it completed on a retry,
\* and for no other batch.
C19_ProgressEveryTenth ==
    /\ \A b \in BatchesCalled :
          (Over(b) /\ ~AllFailed(b) /\ b % ProgressEvery = 0) => b \in Reported
    /\ \A b \in Reported :
          b % ProgressEvery = 0 /\ b \in BatchesCalled /\ ~AllFailed(b)

(* ------------------------- properties of main ------------------------- *)

\* the run of main ended
Ended == mpc \in {"done", "exit1", "interrupted"}

\* C16: when generate_embeddings raises or the run is interrupted, the run
\* ends without an export: export is called at most once, and only after
\* generate_embeddings returned or was skipped by --skip-embeddings.
C16_ExportOnlyAfterEmbedding ==
    /\ Len(exported) <= 1
    /\ exported # << >> =>
          /\ ~args.dry_run
          /\ IF args.skip_embeddings THEN epc = "idle" ELSE epc = "returned"
    /\ epc = "raised" =>
          /\ mpc \in {"embed", "exit1", "interrupted"}
          /\ exported = << >>
    /\ mpc = "interrupted" => exported = << >>

C16_Witness ==
    /\ mpc = "exit1"
    /\ epc = "raised"
    /\ enriched_chunks # << >>
    /\ Len(calls) >= 2

\* the files gone through that raised, that returned chunks
Raised == { f \in 1..Len(outcomes) : outcomes[f].raised }
ChunksOf(f) == { i \in 1..Len(all_chunks) : all_chunks[i].metadata.file = f }

\* C17: a file whose processing raises gives no chunk and adds exactly 1 to
\* stats['errors'], and the files after it are still processed; when
\* process_codebase has returned, files_processed + errors is the number of
\* scanned files and chunks_created the length of the returned list.
C17_PerFileErrorsAreTallied ==
    /\ Len(outcomes) = file_idx
    /\ stats.errors = Cardinality(Raised)
    /\ stats.files_processed = file_idx - Cardinality(Raised)
    /\ \A f \in 1..Len(outcomes) :
          Cardinality(ChunksOf(f)) = IF outcomes[f].raised THEN 0 ELSE outcomes[f].chunks
    /\ mpc \in {"processed", "embed", "export", "done"} =>
          /\ file_idx = Len(files)
          /\ stats.files_processed + stats.errors = Len(files)
          /\ stats.chunks_created = Len(all_chunks)

C17_Witness ==
    /\ mpc = "processed"
    /\ Len(files) = 2
    /\ outcomes[1].raised
    /\ ~outcomes[2].raised
    /\ Len(all_chunks) = 2

\* the configuration errors of the claim
ConfigError ==
    \/ embedding.provider \notin {"local", "openai"}
    \/ embedding.provider = "openai" /\ ~config.api_key
    \/ config.chunk_size < MinChunkSize

\* C18: with an unknown provider, a missing remote credential or a chunk size
\* under 100 the run ends before any processing: no file is scanned or
\* chunked, no backend call is made and nothing is exported.
C18_ConfigErrorsAreFatal ==
    (mpc \notin {"idle", "load"} /\ ConfigError) =>
        /\ mpc \in {"validate", "init", "exit1", "interrupted"}
        /\ ~scanned
        /\ files = << >> /\ file_idx = 0 /\ all_chunks = << >>
        /\ epc = "idle" /\ calls = << >>
        /\ exported = << >>

C18_Witness ==
    /\ mpc = "exit1"
    /\ config.source_exists
    /\ config.chunk_size >= MinChunkSize
    /\ embedding.provider = "openai"
    /\ ~config.api_key

\* C20: generate_embeddings leaves its input as it was (the chunks
\* process_codebase returned, none with an embedding); a chunk of the output
\* has one embedding from the moment it is appended and is not written
\* again; with --skip-embeddings the exporter gets the chunks of
\* process_codebase, none with an embedding.
C20_InputChunksUntouched ==
    /\ [](/\ epc # "idle" => embed_chunks = all_chunks
          /\ \A i \in 1..Len(all_chunks) :
                DOMAIN all_chunks[i] = {"content", "metadata"}
          /\ \A i \in 1..Len(enriched_chunks) :
                /\ DOMAIN enriched_chunks[i] = {"content", "metadata", "embedding"}
                /\ \E j \in 1..Len(embed_chunks) :
                      /\ enriched_chunks[i].content = embed_chunks[j].content
                      /\ enriched_chunks[i].metadata = embed_chunks[j].metadata
          /\ (args.skip_embeddings /\ exported # << >>) => exported[1] = all_chunks)
    /\ [][/\ Len(enriched_chunks') >= Len(enriched_chunks)
          /\ \A i \in 1..Len(enriched_chunks) : enriched_chunks'[i] = enriched_chunks[i]
          /\ mpc \in {"embed", "export", "done", "exit1", "interrupted"}
                => all_chunks' = all_chunks]_vars

C20_Witness ==
    /\ mpc = "done"
    /\ epc = "returned"
    /\ Len(enriched_chunks) = 3
    /\ Len(exported) = 1

C20_WitnessSkipped ==
    /\ mpc = "done"
    /\ args.skip_embeddings
    /\ Len(exported) = 1
    /\ Len(exported[1]) >= 2

\* C21: with --dry-run main scans and chunks the codebase but calls neither
\* generate_embeddings nor the exporter; with --skip-embeddings and no
\* --dry-run it does not call generate_embeddings, and calls the exporter
\* with the chunks process_codebase returned.
C21_DryRunAndSkip ==
    /\ args.dry_run =>
          /\ epc = "idle" /\ calls = << >>
          /\ exported = << >>
          /\ mpc \notin {"embed", "export"}
          /\ mpc = "done" =>
                scanned /\ file_idx = Len(files) /\ stats.chunks_created = Len(all_chunks)
    /\ (args.skip_embeddings /\ ~args.dry_run) =>
          /\ epc = "idle" /\ calls = << >>
          /\ mpc # "embed"
          /\ exported \in {<< >>, << all_chunks >>}
          /\ mpc = "done" => exported = << all_chunks >>

C21_Witness ==
    /\ mpc = "done"
    /\ args.dry_run
    /\ ~args.skip_embeddings
    /\ Len(all_chunks) >= 2

C21_WitnessSkipped ==
    /\ mpc = "done"
    /\ ~args.dry_run
    /\ args.skip_embeddings
    /\ Len(all_chunks) >= 2
    /\ Len(exported) = 1

(* ------------------- further properties of the chunker ---------------- *)

\* C22 as stated: in the code branch with overlap = 0, a chunk of two or more
\* blocks has a body (the blocks joined by blank lines, its length recorded
\* in metadata chunk_size) no longer than the configured chunk_size.
C22_JoinedBodyFits ==
    (Done /\ IsCode /\ chunker.overlap = 0) =>
        \A j \in 1..Len(chunks) :
            Len(UnitsIn(j)) >= 2 =>
                /\ chunks[j].metadata.chunk_size = Len(BodyOf(j))
                /\ chunks[j].metadata.chunk_size <= chunker.chunk_size

\* what the code bounds instead: the lengths of the blocks, without the
\* blank lines between them
C22_BlocksFit ==
    (Done /\ IsCode /\ chunker.overlap = 0) =>
        \A j \in 1..Len(chunks) :
            Len(UnitsIn(j)) >= 2 =>
                SumLen([k \in 1..Len(UnitsIn(j)) |-> Units[UnitsIn(j)[k]]])
                    <= chunker.chunk_size

\* the chunks block i is in, and the places it takes in chunk j
ChunksWith(i) == { j \in 1..Len(emitted) : i \in UnitSet(j) }
PlacesIn(i, j) == { k \in 1..Len(UnitsIn(j)) : UnitsIn(j)[k] = i }

\* C24: in the code branch, for every chunk_size >= 1 and every overlap, each
\* block of the input is in one or two of the returned chunks, once in each;
\* when it is in two, they are consecutive chunks and the block is the last
\* of the earlier one and the first of the later one.
C24_BlockInOneOrTwoChunks ==
    (Done /\ IsCode) =>
        \A i \in 1..Len(Units) :
            /\ Cardinality(ChunksWith(i)) \in {1, 2}
            /\ \A j \in ChunksWith(i) :
                  /\ Cardinality(PlacesIn(i, j)) = 1
                  /\ (j + 1) \in ChunksWith(i) =>
                        /\ Last(UnitsIn(j)) = i
                        /\ UnitsIn(j + 1)[1] = i
                  /\ \A k \in ChunksWith(i) : k \in {j - 1, j, j + 1}
                  /\ MadeOfItsUnits(j)

C24_Witness ==
    /\ Done /\ IsCode
    /\ chunker.overlap > 0
    /\ Len(chunks) >= 3
    /\ \E i \in 1..Len(Units) : ChunksWith(i) = {2, 3}
    /\ \E i \in 1..Len(Units) : Cardinality(ChunksWith(i)) = 1

\* the lines of chunk j, their number and the sum of their lengths
LinesIn(j) == [k \in 1..Len(UnitsIn(j)) |-> Units[UnitsIn(j)[k]]]
\* floor(overlap / max(1, average line length of chunk j)), in the reals
FloorOfQuotient(j) ==
    IF SumLen(LinesIn(j)) <= Len(LinesIn(j))
    THEN chunker.overlap
    ELSE (chunker.overlap * Len(LinesIn(j))) \div SumLen(LinesIn(j))
\* max(1, that), capped at the number of lines of chunk j
CarriedBy(j) ==
    LET k == IF FloorOfQuotient(j) > 1 THEN FloorOfQuotient(j) ELSE 1
    IN  IF k > Len(LinesIn(j)) THEN Len(LinesIn(j)) ELSE k
\* chunk j + 1 begins with the last k lines of chunk j, then the line after
\* the last line of chunk j
BeginsWithLast(j, k) ==
    /\ emitted[j + 1].carried = k
    /\ Len(UnitsIn(j + 1)) >= k + 1
    /\ SubSeq(UnitsIn(j + 1), 1, k + 1)
           = Suffix(UnitsIn(j), k) \o << Last(UnitsIn(j)) + 1 >>

\* C23 as stated: in the generic branch the chunk after a closed chunk begins
\* with the last k lines of the closed chunk and then the line that closed
\* it, k = max(1, floor(overlap / max(1, average line length of the closed
\* chunk))) capped at its number of lines; k >= 1 also when overlap = 0.
C23_CarriesFloorOfQuotient ==
    (Done /\ ~IsCode) =>
        \A j \in 1..(Len(chunks) - 1) :
            /\ CarriedBy(j) >= 1
            /\ BeginsWithLast(j, CarriedBy(j))

\* what holds of every run: some k of 1..CarriedBy(j) lines are carried
C23_CarriesAtLeastOneLine ==
    (Done /\ ~IsCode) =>
        \A j \in 1..(Len(chunks) - 1) :
            \E k \in 1..CarriedBy(j) : BeginsWithLast(j, k)

====
